---- MODULE Spec2Model ----
(***************************************************************************)
(* Model of lgr/tools/utils.py: the label-input parsers                    *)
(* (parse_single_cp_input, parse_codepoint_input, parse_label_input), the  *)
(* label readers (read_labels, read_set_labels) and merge_lgrs.            *)
(*                                                                         *)
(* A Python character is a one-character TLA+ string (a code point beyond  *)
(* ASCII, and the grave accent, is written "<U+n>", n in decimal); a       *)
(* Python string is a sequence of characters.                              *)
(***************************************************************************)
EXTENDS Integers, Sequences, FiniteSets, TLC

VARIABLES
    \* parser calls
    s, n, call, as_cp, result,
    \* read_labels / read_set_labels
    input, merged_lgr, validate_labels, do_raise, keep_commented, caller,
    pos, pc, item, yielded, set_labels, checked, collision_calls, outcome, rlog,
    \* merge_lgrs
    input_lgrs, rng, unidb, name, idx, lgr_set, mpc, mresult, union_calls, log

pvars == <<s, n, call, as_cp, result>>
rvars == <<input, merged_lgr, validate_labels, do_raise, keep_commented, caller,
           pos, pc, item, yielded, set_labels, checked, collision_calls, outcome, rlog>>
mvars == <<input_lgrs, rng, unidb, name, idx, lgr_set, mpc, mresult, union_calls, log>>
vars == <<pvars, rvars, mvars>>

----------------------------------------------------------------------------
(* Bounds of the model *)

\* longest parser input, in pieces of InputPieces
MaxPieces == 3
\* numbers 0..MaxSmallN are among those written in hex for the U+ round trip
MaxSmallN == 20
\* longest label file, in lines
MaxLines == 3
\* most ruleset sources given to merge_lgrs
MaxLgrs == 3

----------------------------------------------------------------------------
(* Characters and strings *)

AsciiPrintable ==
    <<" ", "!", "\"", "#", "$", "%", "&", "'", "(", ")", "*", "+", ",", "-", ".", "/",
      "0", "1", "2", "3", "4", "5", "6", "7", "8", "9", ":", ";", "<", "=", ">", "?",
      "@", "A", "B", "C", "D", "E", "F", "G", "H", "I", "J", "K", "L", "M", "N", "O",
      "P", "Q", "R", "S", "T", "U", "V", "W", "X", "Y", "Z", "[", "\\", "]", "^", "_",
      "<U+96>", "a", "b", "c", "d", "e", "f", "g", "h", "i", "j", "k", "l", "m", "n", "o",
      "p", "q", "r", "s", "t", "u", "v", "w", "x", "y", "z", "{", "|", "}", "~">>

\* largest code point, 0x10FFFF
MaxCodePoint == 1114111

\* unichr(c)
UniChr(c) ==
    IF c \in 32..126 THEN AsciiPrintable[c - 31]
    ELSE IF c = 9 THEN "\t"
    ELSE IF c = 10 THEN "\n"
    ELSE "<U+" \o ToString(c) \o ">"

\* the code points beyond ASCII whose characters the model's inputs produce
NonAscii == {214, 246}

\* ord(c)
Ord(c) ==
    IF c = "\t" THEN 9
    ELSE IF c = "\n" THEN 10
    ELSE IF \E k \in NonAscii : UniChr(k) = c
         THEN CHOOSE k \in NonAscii : UniChr(k) = c
         ELSE 31 + CHOOSE i \in 1..Len(AsciiPrintable) : AsciiPrintable[i] = c

\* unicode.upper() and unicode.lower(), character by character
UpperChar(c) ==
    LET o == Ord(c) IN IF o \in 97..122 \/ o = 246 THEN UniChr(o - 32) ELSE c
LowerChar(c) ==
    LET o == Ord(c) IN IF o \in 65..90 \/ o = 214 THEN UniChr(o + 32) ELSE c
Upper(str) == [i \in 1..Len(str) |-> UpperChar(str[i])]
Lower(str) == [i \in 1..Len(str) |-> LowerChar(str[i])]

\* the characters str.strip() removes and str.split() splits on
Whitespace == {" ", "\t", "\n"}

\* F applied to the value of v, which is computed once
Bind(v, F(_)) == CHOOSE r \in {F(a) : a \in {v}} : TRUE

\* the least and the greatest element of a non-empty set of integers
Min(S) == CHOOSE x \in S : \A y \in S : x <= y
Max(S) == CHOOSE x \in S : \A y \in S : y <= x

\* str.strip()
Strip(str) ==
    LET solid == {i \in 1..Len(str) : str[i] \notin Whitespace} IN
    IF solid = {} THEN <<>> ELSE SubSeq(str, Min(solid), Max(solid))

\* str.split(): the tokens between runs of whitespace
Split(str) ==
    LET first == {i \in 1..Len(str) : /\ str[i] \notin Whitespace
                                      /\ (i = 1 \/ str[i - 1] \in Whitespace)}
        last  == {i \in 1..Len(str) : /\ str[i] \notin Whitespace
                                      /\ (i = Len(str) \/ str[i + 1] \in Whitespace)}
        nth(S, k) == CHOOSE x \in S : Cardinality({y \in S : y < x}) = k - 1
    IN  [k \in 1..Cardinality(first) |-> SubSeq(str, nth(first, k), nth(last, k))]

\* sub in str
Contains(str, sub) ==
    \E i \in 1..(Len(str) - Len(sub) + 1) : SubSeq(str, i, i + Len(sub) - 1) = sub

\* str.startswith(prefix)
StartsWith(str, prefix) ==
    Len(str) >= Len(prefix) /\ SubSeq(str, 1, Len(prefix)) = prefix

\* str.find(c) for a character that occurs in str (1-based)
Find(str, c) == CHOOSE i \in 1..Len(str) : str[i] = c /\ \A j \in 1..(i - 1) : str[j] # c

----------------------------------------------------------------------------
(* Exceptions: the kind of failure and the text it is built around *)

NoError == [kind |-> "none", arg |-> <<>>]
\* ValueError of int(x, 16)
InvalidLiteral(x) == [kind |-> "invalid_literal", arg |-> x]
\* ValueError("code point value must be in the range [0, U+10FFFF]")
OutOfRange == [kind |-> "out_of_range", arg |-> <<>>]
\* ValueError("Label '{}' contains spaces that are not PVALID for IDNA2008")
SpacesNotPvalid(x) == [kind |-> "spaces_not_pvalid", arg |-> x]
\* the failure of the caller's IDNA decoder, with the decoder's message
IdnaError(msg) == [kind |-> "idna", arg |-> msg]

\* unicode(ex)
Message(err) ==
    CASE err.kind = "invalid_literal" ->
            <<"i", "n", "v", "a", "l", "i", "d", " ", "l", "i", "t", "e", "r", "a", "l", " ", "f", "o", "r", " ", "i", "n", "t", "(", ")", " ", "w", "i", "t", "h", " ", "b", "a", "s", "e", " ", "1", "6", ":", " ", "'">> \o err.arg \o <<"'">>
      [] err.kind = "out_of_range" ->
            <<"c", "o", "d", "e", " ", "p", "o", "i", "n", "t", " ", "v", "a", "l", "u", "e", " ", "m", "u", "s", "t", " ", "b", "e", " ", "i", "n", " ", "t", "h", "e", " ", "r", "a", "n", "g", "e", " ", "[", "0", ",", " ", "U", "+", "1", "0", "F", "F", "F", "F", "]">>
      [] err.kind = "spaces_not_pvalid" ->
            <<"L", "a", "b", "e", "l", " ", "'">> \o err.arg \o <<"'", " ", "c", "o", "n", "t", "a", "i", "n", "s", " ", "s", "p", "a", "c", "e", "s", " ", "t", "h", "a", "t", " ", "a", "r", "e", " ", "n", "o", "t", " ", "P", "V", "A", "L", "I", "D", " ", "f", "o", "r", " ", "I", "D", "N", "A", "2", "0", "0", "8">>
      [] err.kind = "idna" -> err.arg
      [] OTHER -> <<>>

----------------------------------------------------------------------------
(* int(x, 16) *)

HexDigits == <<"0", "1", "2", "3", "4", "5", "6", "7", "8", "9", "a", "b", "c", "d", "e", "f">>

\* the value of a hexadecimal digit, -1 for any other character
HexVal(c) ==
    LET l == LowerChar(c) IN
    IF \E i \in 1..16 : HexDigits[i] = l
    THEN (CHOOSE i \in 1..16 : HexDigits[i] = l) - 1
    ELSE -1

\* The number the first k of the hexadecimal digits ds write. Python's
\* integers are unbounded; here a number of 16^7 or more is given as 16^7,
\* which keeps it beyond every code point.
RECURSIVE HexPrefix(_, _)
HexPrefix(ds, k) ==
    IF k = 0 THEN 0
    ELSE Bind(HexPrefix(ds, k - 1), LAMBDA high :
             IF high >= 16 ^ 6 THEN 16 ^ 7 ELSE 16 * high + HexVal(ds[k]))

HexNumber(ds) == HexPrefix(ds, Len(ds))

\* int(x, 16): surrounding whitespace, a sign and a 0x prefix are accepted,
\* then at least one hexadecimal digit and nothing else
IntBase16(x) ==
    Bind(Strip(x), LAMBDA t :
        LET signed == t # <<>> /\ Head(t) \in {"+", "-"}
            u      == IF signed THEN Tail(t) ELSE t
            pref   == Len(u) > 2 /\ Lower(SubSeq(u, 1, 2)) = <<"0", "x">> /\ HexVal(u[3]) >= 0
        IN  Bind(IF pref THEN SubSeq(u, 3, Len(u)) ELSE u, LAMBDA ds :
                IF ds # <<>> /\ \A i \in 1..Len(ds) : HexVal(ds[i]) >= 0
                THEN [ok |-> TRUE,
                      v  |-> IF signed /\ Head(t) = "-" THEN 0 - HexNumber(ds)
                             ELSE HexNumber(ds)]
                ELSE [ok |-> FALSE, v |-> 0]))

----------------------------------------------------------------------------
(* parse_single_cp_input, parse_codepoint_input, parse_label_input *)

\* s[:2]
Prefix2(str) == SubSeq(str, 1, IF Len(str) < 2 THEN Len(str) ELSE 2)

\* parse_single_cp_input with a hexadecimal digit read as a number even when
\* it stands alone
ParseSingleCpInputHexFirst(x) ==
    Bind(Strip(x), LAMBDA t :
        IF Len(t) = 1 /\ HexVal(t[1]) < 0
        THEN [ok |-> TRUE, v |-> Ord(t[1]), err |-> NoError]
        ELSE LET hex == IF Upper(Prefix2(t)) = <<"U", "+">> THEN SubSeq(t, 3, Len(t)) ELSE t IN
             Bind(IntBase16(hex), LAMBDA i :
                 IF ~i.ok THEN [ok |-> FALSE, v |-> 0, err |-> InvalidLiteral(hex)]
                 ELSE IF i.v < 0 \/ i.v > MaxCodePoint
                      THEN [ok |-> FALSE, v |-> 0, err |-> OutOfRange]
                      ELSE [ok |-> TRUE, v |-> i.v, err |-> NoError]))

\* parse_single_cp_input with the upper bound of the range check off by one
ParseSingleCpInputBelowMax(x) ==
    Bind(Strip(x), LAMBDA t :
        IF Len(t) = 1
        THEN [ok |-> TRUE, v |-> Ord(t[1]), err |-> NoError]
        ELSE LET hex == IF Upper(Prefix2(t)) = <<"U", "+">> THEN SubSeq(t, 3, Len(t)) ELSE t IN
             Bind(IntBase16(hex), LAMBDA i :
                 IF ~i.ok THEN [ok |-> FALSE, v |-> 0, err |-> InvalidLiteral(hex)]
                 ELSE IF i.v < 0 \/ i.v >= MaxCodePoint
                      THEN [ok |-> FALSE, v |-> 0, err |-> OutOfRange]
                      ELSE [ok |-> TRUE, v |-> i.v, err |-> NoError]))

\* parse_single_cp_input(x): [ok, v, err]
ParseSingleCpInput(x) ==
    Bind(Strip(x), LAMBDA t :
        IF Len(t) = 1
        THEN [ok |-> TRUE, v |-> Ord(t[1]), err |-> NoError]
        ELSE LET hex == IF Upper(Prefix2(t)) = <<"U", "+">> THEN SubSeq(t, 3, Len(t)) ELSE t IN
             Bind(IntBase16(hex), LAMBDA i :
                 IF ~i.ok THEN [ok |-> FALSE, v |-> 0, err |-> InvalidLiteral(hex)]
                 ELSE IF i.v < 0 \/ i.v > MaxCodePoint
                      THEN [ok |-> FALSE, v |-> 0, err |-> OutOfRange]
                      ELSE [ok |-> TRUE, v |-> i.v, err |-> NoError]))

\* parse_codepoint_input(x): [ok, cps, err]: the code points of the tokens of
\* x in order, or the error of the first token that fails
ParseCodepointInput(x) ==
    Bind(Split(x), LAMBDA tokens :
        Bind([i \in 1..Len(tokens) |-> ParseSingleCpInput(tokens[i])], LAMBDA each :
            LET failed == {i \in 1..Len(tokens) : ~each[i].ok} IN
            IF failed = {}
            THEN [ok |-> TRUE, cps |-> [i \in 1..Len(tokens) |-> each[i].v],
                  err |-> NoError]
            ELSE [ok |-> FALSE, cps |-> <<>>, err |-> each[Min(failed)].err]))

Failure(e) == [ok |-> FALSE, cps |-> <<>>, str |-> <<>>, err |-> e]
Codepoints(cps) == [ok |-> TRUE, cps |-> cps, str |-> <<>>, err |-> NoError]
String(str) == [ok |-> TRUE, cps |-> <<>>, str |-> str, err |-> NoError]

\* what one call of the caller's idna_decoder does: it fails with a message or
\* returns a decoded string
DecoderOutcomes ==
    { [ok |-> FALSE, str |-> <<>>, msg |-> <<"d", "e", "c", "o", "d", "i", "n", "g", " ", "w", "i", "t", "h", " ", "'", "i", "d", "n", "a", "'", " ", "c", "o", "d", "e", "c", " ", "f", "a", "i", "l", "e", "d">>],
      [ok |-> TRUE, str |-> <<UniChr(246), "m">>, msg |-> <<>>] }

\* s.lower().startswith('xn--')
IsALabel(x) == StartsWith(Lower(x), <<"x", "n", "-", "-">>)
\* ' ' in s
HasSpace(x) == Contains(x, <<" ">>)
\* 'U+' in s.upper()
HasUPlus(x) == Contains(Upper(x), <<"U", "+">>)

\* parse_label_input with the error of the sequence parser passed on even
\* when the string has a space
ParseLabelInputNoRewrap(x, dec, cp) ==
    IF IsALabel(x)
    THEN IF ~dec.ok THEN Failure(IdnaError(dec.msg))
         ELSE IF cp THEN Codepoints([i \in 1..Len(dec.str) |-> Ord(dec.str[i])])
              ELSE String(dec.str)
    ELSE IF HasSpace(x) \/ HasUPlus(x)
    THEN Bind(ParseCodepointInput(x), LAMBDA label_cp :
             IF ~label_cp.ok
             THEN Failure(label_cp.err)
             ELSE IF cp THEN Codepoints(label_cp.cps)
                  ELSE String([i \in 1..Len(label_cp.cps) |-> UniChr(label_cp.cps[i])]))
    ELSE IF cp THEN Codepoints([i \in 1..Len(x) |-> Ord(x[i])])
         ELSE String(x)

\* parse_label_input with every string that parses as a code point sequence
\* read as one, marked by a space or "U+" or not
ParseLabelInputHexFirst(x, dec, cp) ==
    IF IsALabel(x)
    THEN IF ~dec.ok THEN Failure(IdnaError(dec.msg))
         ELSE IF cp THEN Codepoints([i \in 1..Len(dec.str) |-> Ord(dec.str[i])])
              ELSE String(dec.str)
    ELSE Bind(ParseCodepointInput(x), LAMBDA label_cp :
             IF HasSpace(x) \/ HasUPlus(x) \/ label_cp.ok
             THEN IF ~label_cp.ok
                  THEN IF HasSpace(x) THEN Failure(SpacesNotPvalid(x))
                       ELSE Failure(label_cp.err)
                  ELSE IF cp THEN Codepoints(label_cp.cps)
                       ELSE String([i \in 1..Len(label_cp.cps) |-> UniChr(label_cp.cps[i])])
             ELSE IF cp THEN Codepoints([i \in 1..Len(x) |-> Ord(x[i])])
                  ELSE String(x))

\* parse_label_input(x, idna_decoder, cp), where dec is what idna_decoder does
\* when it is called: [ok, cps, str, err]
ParseLabelInput(x, dec, cp) ==
    IF IsALabel(x)
    THEN IF ~dec.ok THEN Failure(IdnaError(dec.msg))
         ELSE IF cp THEN Codepoints([i \in 1..Len(dec.str) |-> Ord(dec.str[i])])
              ELSE String(dec.str)
    ELSE IF HasSpace(x) \/ HasUPlus(x)
    THEN Bind(ParseCodepointInput(x), LAMBDA label_cp :
             IF ~label_cp.ok
             THEN IF HasSpace(x) THEN Failure(SpacesNotPvalid(x))
                  ELSE Failure(label_cp.err)
             ELSE IF cp THEN Codepoints(label_cp.cps)
                  ELSE String([i \in 1..Len(label_cp.cps) |-> UniChr(label_cp.cps[i])]))
    ELSE IF cp THEN Codepoints([i \in 1..Len(x) |-> Ord(x[i])])
         ELSE String(x)

----------------------------------------------------------------------------
(* The inputs of the parser calls *)

InputPieces ==
    { <<"x", "n", "-", "-">>, <<"U", "+">>, <<"u", "+">>, <<" ">>, <<"\t">>, <<"0">>, <<"1">>, <<"a">>, <<"g">>, <<"-">>,
      <<"0", "x">>, <<"6", "1">>, <<"0", "0", "6", "1">>, <<"1", "0", "F", "F", "F", "F">>, <<"1", "1", "0", "0", "0", "0">> }

RECURSIVE PieceStrings(_)
PieceStrings(k) ==
    IF k = 0 THEN {<<>>}
    ELSE LET shorter == PieceStrings(k - 1) IN
         shorter \cup {p \o q : p \in shorter, q \in InputPieces}

InputStrings == PieceStrings(MaxPieces)

\* the numbers written in hex after "U+": small ones, the powers of 16 and
\* their neighbours, and those around the largest code point
HexNumbers ==
    (0..MaxSmallN) \cup {255, 256, 4095, 4096, 43981, 65535, 65536, 1048575, 1048576,
                         11259375, 16777215, 16777216}
    \cup ((MaxCodePoint - 8)..(MaxCodePoint + 8))

\* the hexadecimal digits of k, most significant first; letter digits are
\* lower case ("lower"), upper case ("upper") or alternate ("mixed")
ToHex(k, case) ==
    Bind(CHOOSE d \in 1..8 : k < 16 ^ d /\ (d = 1 \/ k >= 16 ^ (d - 1)), LAMBDA len :
        [i \in 1..len |->
            LET digit == HexDigits[((k \div (16 ^ (len - i))) % 16) + 1] IN
            IF case = "upper" \/ (case = "mixed" /\ i % 2 = 1)
            THEN UpperChar(digit) ELSE digit])

HexInputs ==
    { [n |-> k, s |-> p \o ToHex(k, case)] :
        k \in HexNumbers, p \in {<<"U", "+">>, <<"u", "+">>}, case \in {"lower", "upper", "mixed"} }

NoResult == [ok |-> FALSE, cps |-> <<>>, str |-> <<>>, err |-> NoError]

\* parse_single_cp_input(s)
CallParseSingleCpInput ==
    /\ call = "none"
    /\ call' = "parse_single_cp_input"
    /\ \E r \in {ParseSingleCpInput(s)} :
         result' = IF r.ok THEN Codepoints(<<r.v>>) ELSE Failure(r.err)
    /\ UNCHANGED <<s, n, as_cp>>
    /\ UNCHANGED <<rvars, mvars>>

\* parse_codepoint_input(s)
CallParseCodepointInput ==
    /\ call = "none"
    /\ call' = "parse_codepoint_input"
    /\ \E r \in {ParseCodepointInput(s)} :
         result' = IF r.ok THEN Codepoints(r.cps) ELSE Failure(r.err)
    /\ UNCHANGED <<s, n, as_cp>>
    /\ UNCHANGED <<rvars, mvars>>

\* parse_label_input(s, idna_decoder, as_cp)
CallParseLabelInput ==
    /\ call = "none"
    /\ call' = "parse_label_input"
    /\ \E cp \in BOOLEAN :
         \E dec \in (IF IsALabel(s) THEN DecoderOutcomes
                     ELSE {CHOOSE d \in DecoderOutcomes : ~d.ok}) :
            /\ as_cp' = cp
            /\ result' = ParseLabelInput(s, dec, cp)
    /\ UNCHANGED <<s, n>>
    /\ UNCHANGED <<rvars, mvars>>

ParseNext ==
    \/ CallParseSingleCpInput
    \/ CallParseCodepointInput
    \/ CallParseLabelInput

----------------------------------------------------------------------------
(* read_labels and read_set_labels *)

\* the lines a label file is made of
LinePool ==
    { <<"#", " ", "c">>, <<" ", " ">>, <<"a", "b">>, <<"U", "+", "6", "1", " ", "6", "2">>, <<" ", "a", " ", "#", "x">>, <<"g", "g", " ", "h">>, <<"U", "+">>, <<"x", "n", "-", "-", "a">> }

RECURSIVE LineSeqs(_)
LineSeqs(k) ==
    IF k = 0 THEN {<<>>}
    ELSE LET shorter == LineSeqs(k - 1) IN
         shorter \cup {ls \o <<l>> : ls \in shorter, l \in LinePool}

InputFiles == LineSeqs(MaxLines)

\* tuple([ord(c) for c in label])
LabelCp(label) == [i \in 1..Len(label) |-> Ord(label[i])]

\* "{}: {}".format(label, unicode(ex))
Placeholder(label, err) == label \o <<":", " ">> \o Message(err)

\* the text of a line that reaches parse_label_input (empty when none does):
\* the line stripped, truncated at a "#" and stripped again
LabelText(raw) ==
    Bind(Strip(raw), LAMBDA stripped :
        IF Contains(stripped, <<"#">>)
        THEN Strip(SubSeq(stripped, 1, Find(stripped, "#") - 1))
        ELSE stripped)

\* read_labels with a line that fails to parse dropped when it does not raise
ReadLineDropsBad(raw, dec, raise, keep) ==
    Bind(Strip(raw), LAMBDA stripped :
        IF Contains(stripped, <<"#">>) /\ Find(stripped, "#") = 1
        THEN IF keep
             THEN [do |-> "yield", kind |-> "comment", item |-> stripped, err |-> NoError]
             ELSE [do |-> "skip", kind |-> "comment", item |-> <<>>, err |-> NoError]
        ELSE Bind(LabelText(stripped), LAMBDA label :
            IF Len(label) = 0
            THEN [do |-> "skip", kind |-> "blank", item |-> <<>>, err |-> NoError]
            ELSE Bind(ParseLabelInput(label, dec, FALSE), LAMBDA parsed :
                IF parsed.ok
                THEN [do |-> "yield", kind |-> "label", item |-> parsed.str, err |-> NoError]
                ELSE IF raise
                THEN [do |-> "raise", kind |-> "error", item |-> <<>>, err |-> parsed.err]
                ELSE [do |-> "skip", kind |-> "error", item |-> <<>>, err |-> parsed.err])))

\* what read_labels does with one line of the input, given what the IDNA
\* decoder does if it is called: it skips the line, yields an item or raises
ReadLine(raw, dec, raise, keep) ==
    Bind(Strip(raw), LAMBDA stripped :
        IF Contains(stripped, <<"#">>) /\ Find(stripped, "#") = 1
        THEN IF keep
             THEN [do |-> "yield", kind |-> "comment", item |-> stripped, err |-> NoError]
             ELSE [do |-> "skip", kind |-> "comment", item |-> <<>>, err |-> NoError]
        ELSE Bind(LabelText(stripped), LAMBDA label :
            IF Len(label) = 0
            THEN [do |-> "skip", kind |-> "blank", item |-> <<>>, err |-> NoError]
            ELSE Bind(ParseLabelInput(label, dec, FALSE), LAMBDA parsed :
                IF parsed.ok
                THEN [do |-> "yield", kind |-> "label", item |-> parsed.str, err |-> NoError]
                ELSE IF raise
                THEN [do |-> "raise", kind |-> "error", item |-> <<>>, err |-> parsed.err]
                ELSE [do |-> "yield", kind |-> "placeholder",
                      item |-> Placeholder(label, parsed.err), err |-> parsed.err])))

\* the labels and placeholders the lines of the pool can give
LabelUniverse ==
    LET rs == {ReadLine(l, d, FALSE, FALSE) : l \in LinePool, d \in DecoderOutcomes}
    IN  {r.item : r \in {q \in rs : q.do = "yield"}}

\* The merged ruleset, as far as read_set_labels sees it: the code point
\* sequences its eligibility check accepts and the pairs of labels its
\* collision check holds to collide.
MergedLgrs ==
    LET all == {LabelCp(l) : l \in LabelUniverse} IN
    { [eligible |-> e, collisions |-> k] :
        e \in { all, {}, {LabelCp(<<"a", "b">>), LabelCp(<<UniChr(246), "m">>)},
                {LabelCp(<<"a", "b">>), LabelCp(<<"a">>), LabelCp(<<UniChr(246), "m">>)} },
        k \in { {}, {{<<"a", "b">>, <<"a">>}} } }

\* merged_lgr.test_label_eligible(label_cp): whether the label is eligible, and
\* the log, whose last line is the reason
TestLabelEligible(lgr, cps) ==
    [eligible |-> cps \in lgr.eligible,
     logs     |-> IF cps \in lgr.eligible
                  THEN <<"l", "a", "b", "e", "l", " ", "i", "s", " ", "e", "l", "i", "g", "i", "b", "l", "e", "\n">>
                  ELSE <<"t", "e", "s", "t", "i", "n", "g", " ", "l", "a", "b", "e", "l", "\n", "n", "o", "t", " ", "e", "l", "i", "g", "i", "b", "l", "e", ":", " ">>
                       \o [i \in 1..Len(cps) |-> UniChr(cps[i])] \o <<"\n">>]

\* is_collision(merged_lgr, labels)
IsCollision(lgr, labels) == \E pair \in lgr.collisions : pair \subseteq labels

\* logs.strip().split('\n')[-1]
LastLine(logs) ==
    Bind(Strip(logs), LAMBDA t :
        LET nl == {i \in 1..Len(t) : t[i] = "\n"} IN
        SubSeq(t, (IF nl = {} THEN 0 ELSE Max(nl)) + 1, Len(t)))

NoOutcome ==
    [kind |-> "none", err |-> NoError, label |-> <<>>, diagnostic |-> <<>>]

\* read_labels takes the next line of the input: it skips it, yields an item
\* to its consumer, or raises the parse error
NextLine ==
    /\ pc = "next"
    /\ pos < Len(input)
    /\ pos' = pos + 1
    /\ \E dec \in (IF IsALabel(LabelText(input[pos + 1])) THEN DecoderOutcomes
                   ELSE {CHOOSE d \in DecoderOutcomes : ~d.ok}) :
         \E r \in {ReadLine(input[pos + 1], dec, do_raise, keep_commented)} :
         /\ yielded' = IF r.do = "yield"
                       THEN Append(yielded, [item |-> r.item, kind |-> r.kind, line |-> pos + 1])
                       ELSE yielded
         /\ item' = IF r.do = "yield" THEN r.item ELSE item
         /\ pc' = IF r.do = "raise" THEN "raised"
                  ELSE IF r.do = "yield" /\ caller = "read_set_labels" THEN "body"
                  ELSE "next"
         /\ outcome' = IF r.do = "raise"
                       THEN [kind |-> "parse_error", err |-> r.err,
                             label |-> <<>>, diagnostic |-> <<>>]
                       ELSE outcome
    /\ UNCHANGED <<input, merged_lgr, validate_labels, do_raise, keep_commented, caller,
                   set_labels, checked, collision_calls, rlog>>
    /\ UNCHANGED <<pvars, mvars>>

\* the input is exhausted: read_labels ends; read_set_labels leaves its loop
EndOfInput ==
    /\ pc = "next"
    /\ pos = Len(input)
    /\ pc' = IF caller = "read_set_labels" THEN "finish" ELSE "returned"
    /\ outcome' = IF caller = "read_set_labels" THEN outcome
                  ELSE [kind |-> "exhausted", err |-> NoError,
                        label |-> <<>>, diagnostic |-> <<>>]
    /\ UNCHANGED <<input, merged_lgr, validate_labels, do_raise, keep_commented, caller,
                   pos, item, yielded, set_labels, checked, collision_calls, rlog>>
    /\ UNCHANGED <<pvars, mvars>>

\* the loop of read_set_labels with an ineligible label skipped in raising
\* mode too
ScreenNeverRaises(lgr, validate, raise, label) ==
    IF validate
    THEN Bind(TestLabelEligible(lgr, LabelCp(label)), LAMBDA t :
             IF ~t.eligible
             THEN [tested |-> TRUE, logged |-> TRUE, diagnostic |-> LastLine(t.logs),
                   do |-> "skip"]
             ELSE [tested |-> TRUE, logged |-> FALSE, diagnostic |-> <<>>, do |-> "add"])
    ELSE [tested |-> FALSE, logged |-> FALSE, diagnostic |-> <<>>, do |-> "add"]

\* the loop of read_set_labels with an ineligible label logged and kept when
\* it does not raise
ScreenKeepsInvalid(lgr, validate, raise, label) ==
    IF validate
    THEN Bind(TestLabelEligible(lgr, LabelCp(label)), LAMBDA t :
             IF ~t.eligible
             THEN [tested |-> TRUE, logged |-> TRUE, diagnostic |-> LastLine(t.logs),
                   do |-> IF raise THEN "raise" ELSE "add"]
             ELSE [tested |-> TRUE, logged |-> FALSE, diagnostic |-> <<>>, do |-> "add"])
    ELSE [tested |-> FALSE, logged |-> FALSE, diagnostic |-> <<>>, do |-> "add"]

\* read_set_labels, lines 65-75: what the loop does with one item of
\* read_labels: whether it runs the eligibility check, what it logs, and
\* whether it adds the item to the set, skips it or raises
Screen(lgr, validate, raise, label) ==
    IF validate
    THEN Bind(TestLabelEligible(lgr, LabelCp(label)), LAMBDA t :
             IF ~t.eligible
             THEN [tested |-> TRUE, logged |-> TRUE, diagnostic |-> LastLine(t.logs),
                   do |-> IF raise THEN "raise" ELSE "skip"]
             ELSE [tested |-> TRUE, logged |-> FALSE, diagnostic |-> <<>>, do |-> "add"])
    ELSE [tested |-> FALSE, logged |-> FALSE, diagnostic |-> <<>>, do |-> "add"]

\* the end of read_set_labels with the collision check run whether or not
\* validation is requested
ConcludeAlwaysChecks(lgr, validate, raise, labels) ==
    IF IsCollision(lgr, labels)
    THEN [tested |-> TRUE, logged |-> TRUE, do |-> IF raise THEN "raise" ELSE "return"]
    ELSE [tested |-> TRUE, logged |-> FALSE, do |-> "return"]

\* read_set_labels, lines 77-83: whether the collision check runs on the
\* accumulated set, whether a collision is logged, and the return or the raise
Conclude(lgr, validate, raise, labels) ==
    IF validate /\ IsCollision(lgr, labels)
    THEN [tested |-> TRUE, logged |-> TRUE, do |-> IF raise THEN "raise" ELSE "return"]
    ELSE [tested |-> validate, logged |-> FALSE, do |-> "return"]

\* the body of the loop of read_set_labels for the item read_labels yielded
LoopBody ==
    /\ pc = "body"
    /\ \E r \in {Screen(merged_lgr, validate_labels, do_raise, item)} :
       /\ checked' = IF r.tested THEN Append(checked, item) ELSE checked
       /\ rlog' = IF r.logged
                  THEN Append(rlog, [what |-> "invalid_label", label |-> item,
                                     diagnostic |-> r.diagnostic])
                  ELSE rlog
       /\ set_labels' = IF r.do = "add" THEN set_labels \cup {item} ELSE set_labels
       /\ pc' = IF r.do = "raise" THEN "raised" ELSE "next"
       /\ outcome' = IF r.do = "raise"
                     THEN [kind |-> "LGRInvalidLabelException", err |-> NoError,
                           label |-> item, diagnostic |-> r.diagnostic]
                     ELSE outcome
    /\ UNCHANGED <<input, merged_lgr, validate_labels, do_raise, keep_commented, caller,
                   pos, item, yielded, collision_calls>>
    /\ UNCHANGED <<pvars, mvars>>

\* after the loop: the collision check, and the return of set_labels
Finish ==
    /\ pc = "finish"
    /\ \E r \in {Conclude(merged_lgr, validate_labels, do_raise, set_labels)} :
       /\ collision_calls' = IF r.tested THEN Append(collision_calls, set_labels)
                             ELSE collision_calls
       /\ rlog' = IF r.logged
                  THEN Append(rlog, [what |-> "collision", label |-> <<>>,
                                     diagnostic |-> <<>>])
                  ELSE rlog
       /\ pc' = IF r.do = "raise" THEN "raised" ELSE "returned"
       /\ outcome' = [kind |-> IF r.do = "raise" THEN "LGRLabelCollisionException"
                               ELSE "returned",
                      err |-> NoError, label |-> <<>>, diagnostic |-> <<>>]
    /\ UNCHANGED <<input, merged_lgr, validate_labels, do_raise, keep_commented, caller,
                   pos, item, yielded, set_labels, checked>>
    /\ UNCHANGED <<pvars, mvars>>

ReadNext ==
    \/ NextLine
    \/ EndOfInput
    \/ LoopBody
    \/ Finish

----------------------------------------------------------------------------
(* merge_lgrs *)

\* A ruleset source, as far as merge_lgrs sees it: whether parse_document
\* gives a ruleset (parses) and whether validate_document finds it to comply
\* with the schema (valid).
Sources == [parses : BOOLEAN, valid : BOOLEAN]

RECURSIVE SourceSeqs(_)
SourceSeqs(k) ==
    IF k = 0 THEN {<<>>}
    ELSE LET shorter == SourceSeqs(k - 1) IN
         shorter \cup {ss \o <<src>> : ss \in shorter, src \in Sources}

\* lgr_parser.validate_document(rng): None, or the errors found
ValidateDocument(src) == IF src.valid THEN "None" ELSE "errors"

\* lgr_parser.parse_document(): the ruleset of the i-th source, or None
ParseDocument(src, i, db) ==
    IF src.parses THEN [kind |-> "lgr", source |-> i, unicode_database |-> db]
    ELSE [kind |-> "None", source |-> i, unicode_database |-> db]

\* merge_lgr_set(lgr_set, name)
MergeLgrSet(lgrs, set_name) ==
    [name |-> set_name, members |-> [i \in 1..Len(lgrs) |-> lgrs[i].source],
     unicode_database |-> "default"]

\* the loop of merge_lgrs with a source that fails the schema validation
\* refused like one that does not parse
LoadLgrStrict(src, i, withRng, withUnidb) ==
    LET validation == IF withRng THEN ValidateDocument(src) ELSE "None"
        lgr        == ParseDocument(src, i, IF withUnidb THEN "unidb" ELSE "default")
    IN  [logs |-> (IF validation # "None" THEN <<"rng_errors">> ELSE <<>>)
                  \o (IF lgr.kind = "None" THEN <<"parse_error", "check_rng">> ELSE <<>>),
         abort |-> lgr.kind = "None" \/ validation # "None",
         lgr   |-> lgr]

\* merge_lgrs, lines 236-252: one turn of the loop for the i-th source: the
\* errors it logs, and the ruleset it appends or the abort of the merge
LoadLgr(src, i, withRng, withUnidb) ==
    LET validation == IF withRng THEN ValidateDocument(src) ELSE "None"
        lgr        == ParseDocument(src, i, IF withUnidb THEN "unidb" ELSE "default")
    IN  [logs |-> (IF validation # "None" THEN <<"rng_errors">> ELSE <<>>)
                  \o (IF lgr.kind = "None" THEN <<"parse_error", "check_rng">> ELSE <<>>),
         abort |-> lgr.kind = "None",
         lgr   |-> lgr]

\* one turn of the loop over input_lgrs
LoadNext ==
    /\ mpc = "loop"
    /\ idx < Len(input_lgrs)
    /\ \E r \in {LoadLgr(input_lgrs[idx + 1], idx + 1, rng, unidb)} :
       /\ idx' = idx + 1
       /\ log' = log \o [k \in 1..Len(r.logs) |-> [what |-> r.logs[k], source |-> idx + 1]]
       /\ lgr_set' = IF r.abort THEN lgr_set ELSE Append(lgr_set, r.lgr)
       /\ mpc' = IF r.abort THEN "returned" ELSE "loop"
       /\ mresult' = IF r.abort THEN [kind |-> "None"] ELSE mresult
    /\ UNCHANGED <<input_lgrs, rng, unidb, name, union_calls>>
    /\ UNCHANGED <<pvars, rvars>>

\* after the loop: the default name, the union, and the return of the pair
MergeAll ==
    /\ mpc = "loop"
    /\ idx = Len(input_lgrs)
    /\ LET merged_name == IF name = "None" THEN "merged-lgr-set" ELSE name
           merged      == MergeLgrSet(lgr_set, merged_name)
       IN  /\ union_calls' = Append(union_calls, [lgrs |-> lgr_set, name |-> merged_name])
           /\ mresult' = [kind |-> "merged",
                          merged_lgr |-> IF unidb
                                         THEN [merged EXCEPT !.unicode_database = "unidb"]
                                         ELSE merged,
                          lgr_set |-> lgr_set]
    /\ mpc' = "returned"
    /\ UNCHANGED <<input_lgrs, rng, unidb, name, idx, lgr_set, log>>
    /\ UNCHANGED <<pvars, rvars>>

MergeNext ==
    \/ LoadNext
    \/ MergeAll

----------------------------------------------------------------------------
(* Specifications *)

NoLgr == [eligible |-> {}, collisions |-> {}]

\* One input string, before any parser is applied to it; n is the number the
\* string was written from, -1 when it was not written from a number.
ParseInit ==
    /\ \E h \in {[n |-> -1, s |-> x] : x \in InputStrings} \cup HexInputs :
          s = h.s /\ n = h.n
    /\ call = "none" /\ as_cp = TRUE /\ result = NoResult
    /\ input = <<>> /\ merged_lgr = NoLgr
    /\ validate_labels = TRUE /\ do_raise = FALSE /\ keep_commented = FALSE
    /\ caller = "idle" /\ pos = 0 /\ pc = "idle" /\ item = <<>> /\ yielded = <<>>
    /\ set_labels = {} /\ checked = <<>> /\ collision_calls = <<>>
    /\ outcome = NoOutcome /\ rlog = <<>>
    /\ input_lgrs = <<>> /\ rng = FALSE /\ unidb = FALSE /\ name = "idle" /\ idx = 0
    /\ lgr_set = <<>> /\ mpc = "idle" /\ mresult = [kind |-> "none"]
    /\ union_calls = <<>> /\ log = <<>>

\* The start of read_labels(input, unidb, do_raise, keep_commented) consumed on
\* its own, or of read_set_labels(merged_lgr, input, validate_labels, do_raise).
ReadInit ==
    /\ s = <<>> /\ n = -1 /\ call = "idle" /\ as_cp = TRUE /\ result = NoResult
    /\ input \in InputFiles
    /\ do_raise \in BOOLEAN
    /\ \E c \in {[caller |-> "read_labels", keep |-> k, validate |-> FALSE, lgr |-> NoLgr] :
                    k \in BOOLEAN}
            \cup {[caller |-> "read_set_labels", keep |-> FALSE, validate |-> v, lgr |-> l] :
                    v \in BOOLEAN, l \in MergedLgrs} :
          /\ caller = c.caller /\ keep_commented = c.keep
          /\ validate_labels = c.validate /\ merged_lgr = c.lgr
    /\ pos = 0 /\ pc = "next" /\ item = <<>> /\ yielded = <<>>
    /\ set_labels = {} /\ checked = <<>> /\ collision_calls = <<>>
    /\ outcome = NoOutcome /\ rlog = <<>>
    /\ input_lgrs = <<>> /\ rng = FALSE /\ unidb = FALSE /\ name = "idle" /\ idx = 0
    /\ lgr_set = <<>> /\ mpc = "idle" /\ mresult = [kind |-> "none"]
    /\ union_calls = <<>> /\ log = <<>>

\* The start of merge_lgrs(input_lgrs, name, rng, unidb).
MergeInit ==
    /\ s = <<>> /\ n = -1 /\ call = "idle" /\ as_cp = TRUE /\ result = NoResult
    /\ input = <<>> /\ merged_lgr = NoLgr
    /\ validate_labels = TRUE /\ do_raise = FALSE /\ keep_commented = FALSE
    /\ caller = "idle" /\ pos = 0 /\ pc = "idle" /\ item = <<>> /\ yielded = <<>>
    /\ set_labels = {} /\ checked = <<>> /\ collision_calls = <<>>
    /\ outcome = NoOutcome /\ rlog = <<>>
    /\ input_lgrs \in SourceSeqs(MaxLgrs)
    /\ rng \in BOOLEAN
    /\ unidb \in BOOLEAN
    /\ name \in {"None", "my-set"}
    /\ idx = 0 /\ lgr_set = <<>> /\ mpc = "loop" /\ mresult = [kind |-> "none"]
    /\ union_calls = <<>> /\ log = <<>>

\* the parsers applied to one input string
ParseSpec == ParseInit /\ [][ParseNext]_vars

\* one run of read_labels or of read_set_labels over a label file
ReadSpec == ReadInit /\ [][ReadNext]_vars

\* one run of merge_lgrs over a list of ruleset sources
MergeSpec == MergeInit /\ [][MergeNext]_vars

----------------------------------------------------------------------------
(* Properties of read_set_labels *)

Eligible(label) == LabelCp(label) \in merged_lgr.eligible
SetReturned == caller = "read_set_labels" /\ pc = "returned"

LabelLines == {i \in 1..pos : LabelText(input[i]) # <<>>}

\* what a line gives, by the outcome of format detection: the canonical label,
\* or the placeholder "<token>: <error message>"
ItemOf(line, dec) ==
    IF ParseLabelInput(LabelText(line), dec, FALSE).ok
    THEN ParseLabelInput(LabelText(line), dec, FALSE).str
    ELSE LabelText(line) \o <<":", " ">>
         \o Message(ParseLabelInput(LabelText(line), dec, FALSE).err)

\* C2: in non-raising mode without kept comments read_labels never raises,
\* ends only at the end of the input, and has emitted, in input order, exactly
\* one item for each line read that is non-empty after stripping and comment
\* truncation: the canonical label when format detection succeeds, otherwise
\* the placeholder; blank lines and full-line comments emit nothing.
C2_OneItemPerLabelLine ==
    (caller = "read_labels" /\ ~do_raise /\ ~keep_commented) =>
        /\ pc \in {"next", "returned"}
        /\ pc = "returned" => pos = Len(input)
        /\ pc = "next" => ENABLED ReadNext
        /\ Len(yielded) = Cardinality(LabelLines)
        /\ \A k \in 1..Len(yielded) :
              /\ yielded[k].line \in LabelLines
              /\ Cardinality({i \in LabelLines : i < yielded[k].line}) = k - 1
              /\ \E dec \in DecoderOutcomes :
                    yielded[k].item = ItemOf(input[yielded[k].line], dec)

\* read_labels has gone through three lines, one of them skipped, one giving a
\* label and one a placeholder
C2_Witness ==
    /\ caller = "read_labels" /\ ~do_raise /\ ~keep_commented
    /\ pc = "returned" /\ Len(input) = 3 /\ Len(yielded) = 2
    /\ \E j, k \in 1..2 : yielded[j].kind = "label" /\ yielded[k].kind = "placeholder"

\* C4: with validation requested and raising mode on, the first label in input
\* order that the eligibility check rejects aborts read_set_labels with an
\* InvalidLabelError carrying that label and its diagnostic: no later label is
\* read or checked, the collision check is not run, no label set is returned.
C4_FirstIneligibleAborts ==
    (caller = "read_set_labels" /\ validate_labels /\ do_raise) =>
        \A k \in 1..Len(checked) :
            ~Eligible(checked[k]) =>
                /\ k = Len(checked)
                /\ pc = "raised"
                /\ outcome.kind = "LGRInvalidLabelException"
                /\ outcome.label = checked[k]
                /\ outcome.diagnostic = <<"n", "o", "t", " ", "e", "l", "i", "g", "i", "b", "l", "e", ":", " ">> \o checked[k]
                /\ Len(yielded) = k
                /\ yielded[k].item = checked[k]
                /\ pos = yielded[k].line
                /\ collision_calls = <<>>
                /\ ~ENABLED ReadNext

\* the second label checked is rejected and aborts the run before the end of
\* the input
C4_Witness ==
    /\ caller = "read_set_labels" /\ validate_labels /\ do_raise
    /\ pc = "raised" /\ outcome.kind = "LGRInvalidLabelException"
    /\ Len(checked) = 2 /\ ~Eligible(checked[2])
    /\ pos < Len(input)

\* C9: in every run of read_set_labels the collision checker is invoked at
\* most once, only when validation is requested, and only after every input
\* label has been read and eligibility-filtered, over the complete accumulated
\* set; never per label, never without validation, never after an abort.
C9_CollisionCheckOnceAtEnd ==
    caller = "read_set_labels" =>
        /\ Len(collision_calls) <= 1
        /\ ~validate_labels => collision_calls = <<>>
        /\ pc \in {"next", "body", "finish"} => collision_calls = <<>>
        /\ outcome.kind \in {"parse_error", "LGRInvalidLabelException"} =>
              collision_calls = <<>>
        /\ collision_calls # <<>> =>
              /\ pos = Len(input)
              /\ Len(checked) = Len(yielded)
              /\ collision_calls[1] = set_labels
              /\ set_labels = {yielded[k].item : k \in {j \in 1..Len(yielded) :
                                                           Eligible(yielded[j].item)}}

\* the collision checker has run once, on a set of two labels, after a
\* three-line input from which one label was filtered out
C9_Witness ==
    /\ caller = "read_set_labels" /\ pc = "returned"
    /\ Len(collision_calls) = 1 /\ Cardinality(collision_calls[1]) = 2
    /\ Len(checked) = 3 /\ Len(rlog) = 1 /\ rlog[1].what = "invalid_label"

\* C10: every element of the set read_set_labels returns is the canonical
\* label of some input line; a placeholder emitted by read_labels for a
\* malformed line is never a member of it, with or without validation.
C10_OnlyCanonicalLabels ==
    SetReturned =>
        \A l \in set_labels :
            /\ \E k \in 1..Len(yielded) : yielded[k].item = l /\ yielded[k].kind = "label"
            /\ \A k \in 1..Len(yielded) : yielded[k].kind = "placeholder" => yielded[k].item # l

----------------------------------------------------------------------------
(* Properties of the parsers *)

\* C5, as first stated: a label string that contains a space and is not a
\* valid code point sequence fails in parse_label_input with the error
\* "contains spaces that are not PVALID", never with another error; when the
\* sequence parse fails on a string without a space, its error propagates
\* unchanged.
C5_SpaceGivesWhitespaceError ==
    call = "parse_label_input" =>
        /\ (HasSpace(s) /\ ~ParseCodepointInput(s).ok) =>
              (~result.ok /\ result.err = SpacesNotPvalid(s))
        /\ (~IsALabel(s) /\ ~HasSpace(s) /\ HasUPlus(s) /\ ~ParseCodepointInput(s).ok) =>
              (~result.ok /\ result.err = ParseCodepointInput(s).err)

\* C5, amended: a label string that does not start with "xn--"
\* (case-insensitively), contains a space and is not a valid code point
\* sequence fails in parse_label_input with the error "contains spaces that
\* are not PVALID", never with another error; when the sequence parse fails
\* on a string without a space, its error propagates unchanged.
C5_SpaceGivesWhitespaceErrorUnlessALabel ==
    call = "parse_label_input" =>
        /\ (~IsALabel(s) /\ HasSpace(s) /\ ~ParseCodepointInput(s).ok) =>
              (~result.ok /\ result.err = SpacesNotPvalid(s))
        /\ (~IsALabel(s) /\ ~HasSpace(s) /\ HasUPlus(s) /\ ~ParseCodepointInput(s).ok) =>
              (~result.ok /\ result.err = ParseCodepointInput(s).err)

\* a string with a space whose tokens are not all code points has been given
\* to parse_label_input
C5_Witness ==
    /\ call = "parse_label_input" /\ ~IsALabel(s) /\ HasSpace(s)
    /\ ~ParseCodepointInput(s).ok
    /\ ParseCodepointInput(s).err.kind = "invalid_literal"
    /\ result.err.kind = "spaces_not_pvalid"

\* C6: for every string that does not start with "xn--", has no space and has
\* no "U+", parse_label_input returns one code point per character, the
\* character's ordinal, with no hex interpretation (the string itself in
\* string mode); for "0061" it returns [48,48,54,49] while
\* parse_codepoint_input returns [97].
C6_PlainTextIsLiteral ==
    /\ (call = "parse_label_input" /\ ~IsALabel(s) /\ ~HasSpace(s) /\ ~HasUPlus(s)) =>
          /\ result.ok
          /\ as_cp => /\ Len(result.cps) = Len(s)
                      /\ \A i \in 1..Len(s) : result.cps[i] = Ord(s[i])
          /\ ~as_cp => result.str = s
    /\ (s = <<"0", "0", "6", "1">> /\ call = "parse_label_input" /\ as_cp) =>
          result.cps = <<48, 48, 54, 49>>
    /\ (s = <<"0", "0", "6", "1">> /\ call = "parse_codepoint_input") => result.cps = <<97>>

\* parse_label_input has been given the bare hex string "0061"
C6_Witness ==
    /\ s = <<"0", "0", "6", "1">> /\ call = "parse_label_input" /\ as_cp
    /\ result.ok /\ Len(result.cps) = 4

\* C7, as first stated: for all single characters c, parse_single_cp_input(c)
\* returns ord(c), also when c is a decimal digit or a hex letter.
C7_SingleCharIsOrd ==
    (call = "parse_single_cp_input" /\ Len(s) = 1) =>
        (result.ok /\ result.cps = <<Ord(s[1])>>)

\* C7, amended: for all single characters c that are not whitespace,
\* parse_single_cp_input(c) returns ord(c), also when c is a decimal digit or
\* a hex letter.
C7_SingleSolidCharIsOrd ==
    (call = "parse_single_cp_input" /\ Len(s) = 1 /\ s[1] \notin Whitespace) =>
        (result.ok /\ result.cps = <<Ord(s[1])>>)

\* parse_single_cp_input has been given a single hexadecimal digit
C7_Witness ==
    /\ call = "parse_single_cp_input" /\ Len(s) = 1 /\ HexVal(s[1]) >= 0
    /\ result.ok /\ result.cps[1] >= 48

\* C8: for all n in [0, 0x10FFFF], parse_single_cp_input of "U+" followed by
\* the hex digits of n, in any letter case, returns n; for n = 0x110000 and
\* above it fails with the out-of-range error; every code point a parser
\* returns lies in [0, 0x10FFFF].
C8_HexRoundTripInRange ==
    /\ (call = "parse_single_cp_input" /\ n \in 0..1114111) =>
          (result.ok /\ result.cps = <<n>>)
    /\ (call = "parse_single_cp_input" /\ n > 1114111) =>
          (~result.ok /\ result.err.kind = "out_of_range")
    /\ \A i \in 1..Len(result.cps) : result.cps[i] \in 0..1114111

\* parse_single_cp_input has been given "U+" and the digits of 0x10FFFF
C8_Witness ==
    /\ call = "parse_single_cp_input" /\ n = 1114111
    /\ result.ok

----------------------------------------------------------------------------
(* Properties of merge_lgrs *)

AllParse == \A i \in 1..Len(input_lgrs) : input_lgrs[i].parses

\* C3: merge_lgrs returns a merged ruleset, with the ordered list of all N
\* constituent rulesets, if and only if every source parses; if any source
\* fails to parse, nothing is returned and the union is never invoked; a
\* schema-validation failure of a source that parses never prevents the merge.
C3_MergedIffAllParse ==
    /\ mpc = "loop" => union_calls = <<>>
    /\ mpc = "returned" =>
          /\ (mresult.kind = "merged") <=> AllParse
          /\ AllParse =>
                /\ Len(mresult.lgr_set) = Len(input_lgrs)
                /\ \A i \in 1..Len(input_lgrs) : mresult.lgr_set[i].source = i
                /\ Len(union_calls) = 1
                /\ union_calls[1].lgrs = mresult.lgr_set
                /\ mresult.merged_lgr.members = [i \in 1..Len(input_lgrs) |-> i]
          /\ ~AllParse => (mresult.kind = "None" /\ union_calls = <<>>)

\* two sources or more are merged although the schema validation of one of
\* them reported errors
C3_Witness ==
    /\ mpc = "returned" /\ mresult.kind = "merged" /\ rng
    /\ Len(input_lgrs) >= 2
    /\ \E i \in 1..Len(input_lgrs) : ~input_lgrs[i].valid
    /\ \E k \in 1..Len(log) : log[k].what = "rng_errors"

====
